---- MODULE Spec2Model ----
(***************************************************************************)
(* A model of ath_alert.py: the per-symbol all-time-high evaluation        *)
(* (check_all_time_high_once), the Telegram notifier, the CSV log          *)
(* recorder (append_to_csv) and the sequential batch loop of __main__.     *)
(*                                                                         *)
(* Prices are integers; diff_percent, a float in the source, is kept as    *)
(* the exact rational num/den, and a comparison with a percentage is done  *)
(* by cross-multiplication.  Python's None is the empty tuple and a set    *)
(* local v is the one-element tuple <<v>>.                                 *)
(***************************************************************************)
EXTENDS Integers, Sequences, FiniteSets, TLC

(* ------------------------------ bounds --------------------------------- *)
MaxSymbols == 2      \* longest stock_list of a batch run
MaxLen == 3          \* longest series of a single evaluation (SpecOnce)
MaxPrice == 2        \* largest high/close of a single evaluation (SpecOnce)

(* -------------------------- program constants -------------------------- *)
THRESHOLD_PCT == 2
MIN_CANDLES_SINCE_ATH == 10

Symbols == {"RELIANCE.NS", "TCS.NS", "INFY.NS"}

None == <<>>
Some(v) == <<v>>

(* ------------------------ the fetched data frame ----------------------- *)
\* The date label of the k-th row; labels ascend and are not the positions.
DateOf(k) == 10 * k

\* A frame: its column keys (a flat key is <<name>>, a MultiIndex key is
\* <<name, ticker>>), its date index, and one bar per row.
Frame(cols, bars) ==
    [columns |-> cols,
     index   |-> [k \in 1..Len(bars) |-> DateOf(k)],
     bars    |-> bars]

FlatColumns == << <<"Close">>, <<"High">> >>
MultiColumns(ticker) == << <<"Close", ticker>>, <<"High", ticker>> >>
NoHighColumns == << <<"Close">> >>
NoCloseColumns == << <<"High">> >>

\* data.empty: an axis of length 0
IsEmpty(d) == Len(d.index) = 0 \/ Len(d.columns) = 0

\* isinstance(data.columns, pd.MultiIndex)
IsMultiIndex(cols) == \E k \in 1..Len(cols) : Len(cols[k]) > 1

\* data.columns.get_level_values(0)
get_level_values0(cols) == [k \in 1..Len(cols) |-> <<cols[k][1]>>]

Flatten(d) ==
    IF IsMultiIndex(d.columns)
    THEN [d EXCEPT !.columns = get_level_values0(d.columns)]
    ELSE d

\* data[name] raises KeyError unless the column is present
HasColumn(d, name) == \E k \in 1..Len(d.columns) : d.columns[k] = <<name>>

ColumnValues(d, name) == [k \in 1..Len(d.bars) |-> d.bars[k][name]]

(* --------------------------- the ATH evaluator ------------------------- *)
RECURSIVE SeqMax(_)
SeqMax(s) ==
    IF Len(s) = 1 THEN s[1]
    ELSE LET m == SeqMax(Tail(s)) IN IF s[1] > m THEN s[1] ELSE m

\* float(data["Close"].iloc[-1])
CurrentPrice(d) == ColumnValues(d, "Close")[Len(d.bars)]

\* float(data["High"].max())
AllTimeHigh(d) == SeqMax(ColumnValues(d, "High"))

DiffPercent_unclamped(cur, ath) == [num |-> (ath - cur) * 100, den |-> ath]
\* percent below ATH (0 if at or above ATH)
DiffPercent(cur, ath) ==
    IF cur >= ath
    THEN [num |-> 0, den |-> 1]
    ELSE [num |-> (ath - cur) * 100, den |-> ath]

\* diff <= pct, for diff = num/den with den > 0
PctLeq(diff, pct) == diff.num <= pct * diff.den

\* data.index[data["High"] == all_time_high]: the labels of the rows at the ATH
ath_positions(d, ath) ==
    LET high == ColumnValues(d, "High")
        mask == {k \in 1..Len(high) : high[k] = ath}
    IN  SelectSeq(d.index, LAMBDA lbl : \E k \in mask : d.index[k] = lbl)

\* data.index.get_loc(label): the 0-based integer position of a label
get_loc(index, label) == (CHOOSE p \in 1..Len(index) : index[p] = label) - 1

last_ath_index_first(positions) == positions[1]
\* ath_positions[-1]
last_ath_index(positions) == positions[Len(positions)]

CandlesSinceAth(d, ath) ==
    LET positions == ath_positions(d, ath)
    IN  IF Len(positions) = 0
        THEN None
        ELSE Some((Len(d.index) - 1) - get_loc(d.index, last_ath_index(positions)))

(* --------------------------- the alert predicate ----------------------- *)
condition_price_below_ath_or_equal(cur, ath) == cur <= ath
condition_price_below_ath(cur, ath) == cur < ath

condition_within_pct(diff, pct) == PctLeq(diff, pct)

condition_candles(candles, min_candles) ==
    candles # None /\ candles[1] > min_candles

should_alert(cur, ath, diff, candles, pct, min_candles) ==
    /\ condition_price_below_ath(cur, ath)
    /\ condition_within_pct(diff, pct)
    /\ condition_candles(candles, min_candles)

(* ------------------------------ the notifier --------------------------- *)
\* What requests.post does: raise (timeout, connection error) or answer
Responses ==
    {[raised |-> TRUE,  status_code |-> 0],
     [raised |-> FALSE, status_code |-> 200],
     [raised |-> FALSE, status_code |-> 500]}

send_telegram_alert_any_answer(resp) == ~resp.raised
send_telegram_alert(resp) ==
    IF resp.raised THEN FALSE
    ELSE IF resp.status_code = 200 THEN TRUE ELSE FALSE

(* ----------------------------- the log recorder ------------------------ *)
\* the keys of log_data, in order
Columns ==
    <<"timestamp", "symbol", "current_price", "ath", "diff_percent",
      "candles_since_ath", "alert_sent">>

HeaderLine(names) == [kind |-> "header", names |-> names]

RowLine(rec) ==
    [kind  |-> "row",
     cells |-> <<rec.timestamp, rec.symbol, rec.current_price, rec.ath,
                 rec.diff_percent, rec.candles_since_ath, rec.alert_sent>>]

\* df.to_csv(..., header=..., index=False): the lines written
to_csv(rec, header) ==
    IF header THEN <<HeaderLine(Columns), RowLine(rec)>> ELSE <<RowLine(rec)>>

WriteMode_truncate(file_exists) == "w"
\* to_csv's mode: the default "w" for a new file, "a" for an existing one
WriteMode(file_exists) == IF ~file_exists THEN "w" ELSE "a"

WriteHeader_always(file_exists) == TRUE
\* to_csv's header: the default True for a new file, False for an existing one
WriteHeader(file_exists) == ~file_exists

WriteFile(f, mode, lines) ==
    [exists |-> TRUE,
     lines  |-> IF mode = "w" THEN lines ELSE f.lines \o lines]

append_to_csv(f, rec) ==
    LET file_exists == f.exists
    IN  WriteFile(f, WriteMode(file_exists), to_csv(rec, WriteHeader(file_exists)))

MissingFile == [exists |-> FALSE, lines |-> <<>>]

(* -------------------------- returns and exceptions --------------------- *)
\* return symbol, False, None     (no data)
EmptyReturn(sym) == <<sym, FALSE, None>>

\* return symbol, False, None     (except Exception)
ExceptReturn(sym) == <<sym, FALSE, None>>

Caught_lookup_errors_only(exc) == exc \in {"KeyError", "IndexError"}
Caught_io_errors_only(exc) == exc \in {"OSError", "ConnectionError"}
\* except Exception as e: every exception raised in the try block is caught
Caught(exc) == TRUE

LoopDone_one_early(i, list) == i >= Len(list)
\* the for loop over enumerate(stock_list, 1) is exhausted
LoopDone(i, list) == i > Len(list)

(* -------------------------------- state -------------------------------- *)
VARIABLES
    stock_list,             \* config.NIFTY50_STOCKS
    idx,                    \* i of the for loop (1-based)
    pc,                     \* where the program is
    processed,
    alerted_symbols,
    clock,                  \* datetime.now(), in seconds
    file,                   \* the contents of LOG_FILE
    symbol,                 \* the arguments of check_all_time_high_once ...
    threshold_pct,
    min_candles_since_ath,
    data,                   \* ... and its locals
    current_price,
    all_time_high,
    diff_percent,
    candles_since_ath,
    alert_sent,
    log_data,
    ret,                    \* the value check_all_time_high_once returned
    telegram,               \* history: the calls of requests.post
    fetched,                \* history: what yf.download did, one per call
    csv_calls,              \* history: the calls of append_to_csv
    file0                   \* history: LOG_FILE when the program started

mainVars == <<stock_list, idx, processed, alerted_symbols, clock, file0>>
argVars == <<symbol, threshold_pct, min_candles_since_ath>>
localVars ==
    <<data, current_price, all_time_high, diff_percent, candles_since_ath,
      alert_sent, log_data>>
vars ==
    <<stock_list, idx, pc, processed, alerted_symbols, clock, file, symbol,
      threshold_pct, min_candles_since_ath, data, current_price,
      all_time_high, diff_percent, candles_since_ath, alert_sent, log_data,
      ret, telegram, fetched, csv_calls, file0>>

(* ------------------------- what the fetcher returns -------------------- *)
Bar(high, close) == [High |-> high, Close |-> close]

\* a single bar, high 100, close 98
ScenarioA == << Bar(100, 98) >>

\* n bars: the first holds the all-time high 100, every later bar has high
\* and close equal to `close`
StaleHigh(n, close) ==
    [k \in 1..n |-> IF k = 1 THEN Bar(100, 97) ELSE Bar(close, close)]

\* The series a batch run is fed: no data, a frame without a High column,
\* and series on each side of every condition of the alert predicate under
\* THRESHOLD_PCT and MIN_CANDLES_SINCE_ATH.
MainFrames(ticker) ==
    {Frame(FlatColumns, <<>>),
     Frame(NoHighColumns, ScenarioA),
     Frame(FlatColumns, ScenarioA),
     Frame(FlatColumns, StaleHigh(MIN_CANDLES_SINCE_ATH + 2, 99)),
     Frame(MultiColumns(ticker), StaleHigh(MIN_CANDLES_SINCE_ATH + 2, 99)),
     Frame(FlatColumns, StaleHigh(MIN_CANDLES_SINCE_ATH + 2, 90)),
     Frame(FlatColumns, StaleHigh(MIN_CANDLES_SINCE_ATH + 1, 99))}

Prices == 1..MaxPrice
BarSeqs == UNION {[1..n -> [High : Prices, Close : Prices]] : n \in 0..MaxLen}

\* The series a single evaluation is fed: every series within the bounds,
\* under flat or MultiIndex column keys, or with a column missing.
OnceFrames(ticker) ==
    {Frame(cols, bars) :
        cols \in {FlatColumns, MultiColumns(ticker)}, bars \in BarSeqs}
    \cup {Frame(cols, bars) :
        cols \in {NoHighColumns, NoCloseColumns},
        bars \in {b \in BarSeqs : Len(b) = 1}}

ThresholdChoices == {THRESHOLD_PCT, 50}
MinCandlesChoices == {0, 1}

\* a row a previous run left in the log
OldRow ==
    RowLine([timestamp |-> 0, symbol |-> "TCS.NS", current_price |-> 98,
             ath |-> 100, diff_percent |-> DiffPercent(98, 100),
             candles_since_ath |-> Some(0), alert_sent |-> FALSE])

InitFiles ==
    {MissingFile,
     [exists |-> TRUE, lines |-> <<HeaderLine(Columns), OldRow>>]}

StockLists ==
    {l \in UNION {[1..n -> Symbols] : n \in 0..MaxSymbols} :
        \A a, b \in 1..Len(l) : a # b => l[a] # l[b]}

(* ------------------------------- actions ------------------------------- *)
LogData(ts, sym, cur, ath, diff, candles, sent) ==
    [timestamp |-> ts, symbol |-> sym, current_price |-> cur, ath |-> ath,
     diff_percent |-> diff, candles_since_ath |-> candles, alert_sent |-> sent]

\* An exception raised inside the try block of check_all_time_high_once
Raise(exc) ==
    IF Caught(exc)
    THEN pc' = "returned" /\ ret' = ExceptReturn(symbol)
    ELSE pc' = "crashed" /\ ret' = ret

\* for i, stock in enumerate(stock_list, 1): the call of
\* check_all_time_high_once for the next symbol
ForNext ==
    /\ pc = "for"
    /\ ~LoopDone(idx, stock_list)
    /\ symbol' = stock_list[idx]
    /\ threshold_pct' = THRESHOLD_PCT
    /\ min_candles_since_ath' = MIN_CANDLES_SINCE_ATH
    /\ pc' = "download"
    /\ UNCHANGED <<mainVars, localVars, file, ret, telegram, fetched, csv_calls>>

\* yf.download raises
DownloadRaises ==
    /\ pc = "download"
    /\ fetched' = Append(fetched, [symbol |-> symbol, raised |-> TRUE, frame |-> None])
    /\ Raise("ConnectionError")
    /\ UNCHANGED <<mainVars, argVars, localVars, file, telegram, csv_calls>>

\* yf.download returns d; the evaluation up to the first outside call
DownloadReturns(d) ==
    /\ pc = "download"
    /\ fetched' = Append(fetched, [symbol |-> symbol, raised |-> FALSE, frame |-> Some(d)])
    /\ UNCHANGED <<mainVars, argVars, file, telegram, csv_calls>>
    /\ IF IsEmpty(d)
       THEN /\ data' = Some(d)
            /\ pc' = "returned"
            /\ ret' = EmptyReturn(symbol)
            /\ UNCHANGED <<current_price, all_time_high, diff_percent,
                           candles_since_ath, alert_sent, log_data>>
       ELSE LET flat == Flatten(d) IN
            /\ data' = Some(flat)
            /\ IF ~HasColumn(flat, "Close")
               THEN /\ Raise("KeyError")
                    /\ UNCHANGED <<current_price, all_time_high, diff_percent,
                                   candles_since_ath, alert_sent, log_data>>
               ELSE IF ~HasColumn(flat, "High")
               THEN /\ current_price' = Some(CurrentPrice(flat))
                    /\ Raise("KeyError")
                    /\ UNCHANGED <<all_time_high, diff_percent,
                                   candles_since_ath, alert_sent, log_data>>
               ELSE LET cur     == CurrentPrice(flat)
                        ath     == AllTimeHigh(flat)
                        diff    == DiffPercent(cur, ath)
                        candles == CandlesSinceAth(flat, ath)
                    IN  /\ current_price' = Some(cur)
                        /\ all_time_high' = Some(ath)
                        /\ diff_percent' = Some(diff)
                        /\ candles_since_ath' = Some(candles)
                        /\ alert_sent' = Some(FALSE)
                        /\ ret' = ret
                        /\ IF should_alert(cur, ath, diff, candles,
                                           threshold_pct, min_candles_since_ath)
                           THEN /\ pc' = "notify"
                                /\ log_data' = None
                           ELSE /\ pc' = "append"
                                /\ log_data' = Some(LogData(clock, symbol, cur, ath,
                                                            diff, candles, FALSE))

\* alert_sent = send_telegram_alert(message), then log_data is built
SendAlert(resp) ==
    /\ pc = "notify"
    /\ telegram' = Append(telegram,
                          [kind |-> "alert", n |-> idx, response |-> resp,
                           symbols |-> <<symbol>>, processed |-> 0])
    /\ alert_sent' = Some(send_telegram_alert(resp))
    /\ log_data' = Some(LogData(clock, symbol, current_price[1], all_time_high[1],
                                diff_percent[1], candles_since_ath[1],
                                send_telegram_alert(resp)))
    /\ pc' = "append"
    /\ UNCHANGED <<mainVars, argVars, data, current_price, all_time_high,
                   diff_percent, candles_since_ath, file, ret, fetched, csv_calls>>

\* append_to_csv(LOG_FILE, log_data) writes the record; return
AppendLogOk ==
    /\ pc = "append"
    /\ csv_calls' = Append(csv_calls, [n |-> idx, record |-> log_data[1], ok |-> TRUE])
    /\ file' = append_to_csv(file, log_data[1])
    /\ ret' = <<symbol, alert_sent[1], log_data>>
    /\ pc' = "returned"
    /\ UNCHANGED <<mainVars, argVars, localVars, telegram, fetched>>

\* append_to_csv(LOG_FILE, log_data) cannot open the file and raises
AppendLogFails ==
    /\ pc = "append"
    /\ csv_calls' = Append(csv_calls, [n |-> idx, record |-> log_data[1], ok |-> FALSE])
    /\ Raise("OSError")
    /\ UNCHANGED <<mainVars, argVars, localVars, file, telegram, fetched>>

\* symbol, alert_sent, log = ...; processed += 1; alerted_symbols.append;
\* time.sleep(1)
AfterReturn ==
    /\ pc = "returned"
    /\ processed' = processed + 1
    /\ alerted_symbols' =
          IF ret[2] THEN Append(alerted_symbols, stock_list[idx]) ELSE alerted_symbols
    /\ clock' = clock + 1
    /\ idx' = idx + 1
    /\ pc' = "for"
    /\ symbol' = ""
    /\ data' = None /\ current_price' = None /\ all_time_high' = None
    /\ diff_percent' = None /\ candles_since_ath' = None
    /\ alert_sent' = None /\ log_data' = None
    /\ UNCHANGED <<stock_list, file0, threshold_pct, min_candles_since_ath,
                   file, ret, telegram, fetched, csv_calls>>

\* send_telegram_alert(summary_msg) once the loop is over
Summary(resp) ==
    /\ pc = "for"
    /\ LoopDone(idx, stock_list)
    /\ telegram' = Append(telegram,
                          [kind |-> "summary", n |-> 0, response |-> resp,
                           symbols |-> alerted_symbols, processed |-> processed])
    /\ pc' = "done"
    /\ UNCHANGED <<mainVars, argVars, localVars, file, ret, fetched, csv_calls>>

(* --------------------------- the batch run ----------------------------- *)
Init ==
    /\ stock_list \in StockLists
    /\ idx = 1
    /\ pc = "for"
    /\ processed = 0
    /\ alerted_symbols = <<>>
    /\ clock = 1
    /\ file \in InitFiles
    /\ file0 = file
    /\ symbol = ""
    /\ threshold_pct = THRESHOLD_PCT
    /\ min_candles_since_ath = MIN_CANDLES_SINCE_ATH
    /\ data = None /\ current_price = None /\ all_time_high = None
    /\ diff_percent = None /\ candles_since_ath = None
    /\ alert_sent = None /\ log_data = None
    /\ ret = None
    /\ telegram = <<>> /\ fetched = <<>> /\ csv_calls = <<>>

Next ==
    \/ ForNext
    \/ DownloadRaises
    \/ pc = "download" /\ \E d \in MainFrames(symbol) : DownloadReturns(d)
    \/ \E resp \in Responses : SendAlert(resp)
    \/ AppendLogOk
    \/ AppendLogFails
    \/ AfterReturn
    \/ \E resp \in Responses : Summary(resp)

Spec == Init /\ [][Next]_vars

\* The program is one sequential process: a step that can be taken is taken.
FairSpec == Spec /\ WF_vars(Next)

(* ------------------- one call of check_all_time_high_once -------------- *)
InitOnce ==
    /\ symbol \in {"RELIANCE.NS"}
    /\ stock_list = <<symbol>>
    /\ idx = 1
    /\ pc = "download"
    /\ processed = 0
    /\ alerted_symbols = <<>>
    /\ clock = 1
    /\ file \in InitFiles
    /\ file0 = file
    /\ threshold_pct \in ThresholdChoices
    /\ min_candles_since_ath \in MinCandlesChoices
    /\ data = None /\ current_price = None /\ all_time_high = None
    /\ diff_percent = None /\ candles_since_ath = None
    /\ alert_sent = None /\ log_data = None
    /\ ret = None
    /\ telegram = <<>> /\ fetched = <<>> /\ csv_calls = <<>>

NextOnce ==
    \/ DownloadRaises
    \/ pc = "download" /\ \E d \in OnceFrames(symbol) : DownloadReturns(d)
    \/ \E resp \in Responses : SendAlert(resp)
    \/ AppendLogOk
    \/ AppendLogFails

SpecOnce == InitOnce /\ [][NextOnce]_vars

(* ----------------------- what the histories show ----------------------- *)
\* the notifier's endpoint accepted the message
Delivered(resp) == ~resp.raised /\ resp.status_code = 200

\* an alert for the n-th call of check_all_time_high_once was attempted
Attempted(n) ==
    \E k \in 1..Len(telegram) : telegram[k].kind = "alert" /\ telegram[k].n = n

DeliveredTo(n) ==
    \E k \in 1..Len(telegram) :
        /\ telegram[k].kind = "alert"
        /\ telegram[k].n = n
        /\ Delivered(telegram[k].response)

SummaryCount ==
    Cardinality({k \in 1..Len(telegram) : telegram[k].kind = "summary"})

\* the symbols an alert was delivered for, in the order of delivery
DeliveredSymbols ==
    LET hits == SelectSeq(telegram,
                   LAMBDA t : t.kind = "alert" /\ Delivered(t.response))
    IN  [k \in 1..Len(hits) |-> hits[k].symbols[1]]

\* the fetch gave a non-empty series with both fields
WellFormed(f) ==
    /\ ~f.raised
    /\ ~IsEmpty(f.frame[1])
    /\ \E k \in 1..Len(f.frame[1].columns) : f.frame[1].columns[k][1] = "Close"
    /\ \E k \in 1..Len(f.frame[1].columns) : f.frame[1].columns[k][1] = "High"

Skipped(f) == ~f.raised /\ ~WellFormed(f)

EvaluatedSymbols ==
    LET ev == SelectSeq(fetched, WellFormed)
    IN  [k \in 1..Len(ev) |-> ev[k].symbol]

\* the data rows the run added to the log, as the file shows them
AddedRows ==
    SelectSeq(SubSeq(file.lines, Len(file0.lines) + 1, Len(file.lines)),
              LAMBDA line : line.kind = "row")

OkRows ==
    LET ok == SelectSeq(csv_calls, LAMBDA c : c.ok)
    IN  [k \in 1..Len(ok) |-> RowLine(ok[k].record)]

IsPrefix(s, t) == Len(s) <= Len(t) /\ SubSeq(t, 1, Len(s)) = s

\* the claim's three conditions, on the locals of the evaluation
AllThreeHold ==
    /\ current_price[1] < all_time_high[1]
    /\ diff_percent[1].num <= threshold_pct * diff_percent[1].den
    /\ candles_since_ath[1] # None
    /\ candles_since_ath[1][1] > min_candles_since_ath

(* -------------------------------- claims ------------------------------- *)

\* C1: in check_all_time_high_once an alert notification is attempted if
\* and only if current_price < all_time_high, diff_percent <= threshold_pct
\* and candles_since_ath is non-null and > min_candles_since_ath; a symbol
\* that was skipped gets no alert.
C1_AlertIffAllThree ==
    /\ pc = "notify" => AllThreeHold /\ ~Attempted(idx)
    /\ (pc \in {"append", "returned"} /\ candles_since_ath # None)
          => (Attempted(idx) <=> AllThreeHold)
    /\ (pc = "returned" /\ candles_since_ath = None) => ~Attempted(idx)

C1_Witness ==
    /\ pc = "append"
    /\ Attempted(idx)
    /\ candles_since_ath[1] = Some(min_candles_since_ath + 1)
    /\ diff_percent[1].num = threshold_pct * diff_percent[1].den

\* C2: every symbol of the list is evaluated exactly once, in list order,
\* whatever happened to the earlier symbols; the run never stops early.
C2_EverySymbolOnceInOrder ==
    /\ pc # "crashed"
    /\ Len(fetched) <= Len(stock_list)
    /\ [k \in 1..Len(fetched) |-> fetched[k].symbol]
          = SubSeq(stock_list, 1, Len(fetched))
    /\ Len(fetched) = (IF pc \in {"for", "download", "done"} THEN idx - 1 ELSE idx)
    /\ pc = "done" => Len(fetched) = Len(stock_list)

C2_Witness ==
    /\ pc = "done"
    /\ Len(stock_list) = 2
    /\ Len(fetched) = 2
    /\ Len(csv_calls) = 2
    /\ csv_calls[1].n = 1 /\ ~csv_calls[1].ok
    /\ csv_calls[2].n = 2

\* C3: the batch always completes and attempts the summary notification:
\* the summary is sent exactly once, and only after every symbol of the
\* list has been processed.
C3_SummaryOnceAfterAll ==
    /\ <>(pc = "done")
    /\ <>[](SummaryCount = 1)
    /\ [](SummaryCount <= 1)
    /\ [](SummaryCount = 1 =>
            /\ processed = Len(stock_list)
            /\ Len(fetched) = Len(stock_list)
            /\ pc = "done")

C3_Witness ==
    /\ pc = "done"
    /\ SummaryCount = 1
    /\ Len(stock_list) = 2
    /\ fetched[1].raised
    /\ Len(csv_calls) = 1 /\ ~csv_calls[1].ok

C5_SkipLeavesLogAlone ==
    /\ [][(pc = "download" /\ Len(fetched') > Len(fetched)
              /\ Skipped(fetched'[Len(fetched')]))
          => /\ file' = file
             /\ telegram' = telegram
             /\ csv_calls' = csv_calls
             /\ ret' = <<symbol, FALSE, None>>
             /\ pc' = "returned"
             /\ idx' = idx]_vars
    /\ [][pc = "returned" => (pc' = "for" /\ idx' = idx + 1)]_vars

C5_Witness ==
    /\ pc = "download"
    /\ idx = 2
    /\ Skipped(fetched[1])
    /\ IsEmpty(fetched[1].frame[1])
    /\ file = file0

\* C6 as stated: over a whole run the rows added to the log are exactly one
\* row for each symbol whose series was evaluated, in list order, and no
\* earlier row is changed or removed.
C6_OneRowPerEvaluatedSymbol ==
    pc = "done" =>
       /\ IsPrefix(file0.lines, file.lines)
       /\ [k \in 1..Len(AddedRows) |-> AddedRows[k].cells[2]] = EvaluatedSymbols

\* C6 as amended: the rows added to the log are exactly one row for each
\* evaluated symbol whose append did not fail, in list order (each evaluated
\* symbol gets exactly one append attempt), and no earlier row is changed
\* or removed.
C6_OneRowPerSuccessfulAppend ==
    /\ IsPrefix(file0.lines, file.lines)
    /\ AddedRows = OkRows
    /\ pc \in {"for", "done"} =>
          [j \in 1..Len(csv_calls) |-> csv_calls[j].record.symbol] = EvaluatedSymbols
    /\ \A j \in 1..Len(csv_calls) :
          /\ WellFormed(fetched[csv_calls[j].n])
          /\ \A i \in 1..Len(csv_calls) : i < j => csv_calls[i].n < csv_calls[j].n

C6_Witness ==
    /\ pc = "done"
    /\ file0.exists
    /\ Len(csv_calls) = 2
    /\ ~csv_calls[1].ok /\ csv_calls[2].ok
    /\ Len(AddedRows) = 1
    /\ Len(EvaluatedSymbols) = 2

\* C7: starting from a missing file, after any number of successful
\* append_to_csv calls the file is exactly one header row, as its first
\* row, followed by one data row per call in call order.
C7_HeaderOnce ==
    ~file0.exists =>
       IF OkRows = <<>>
       THEN ~file.exists /\ file.lines = <<>>
       ELSE /\ file.exists
            /\ file.lines = <<HeaderLine(Columns)>> \o OkRows

C7_Witness ==
    /\ ~file0.exists
    /\ Len(OkRows) = 2
    /\ Len(file.lines) = 3
    /\ file.lines[1].kind = "header"
    /\ file.lines[3].kind = "row"

\* C8: for a non-empty series of N bars, candles_since_ath is (N-1) minus
\* the index of the latest bar whose high is the maximum high: 0 when the
\* last bar attains the maximum, N-1 when only the first does, within 0..N-1.
C8_CandlesSinceLatestHigh ==
    candles_since_ath # None =>
       LET high == [k \in 1..Len(data[1].bars) |-> data[1].bars[k].High]
           N    == Len(high)
       IN  /\ candles_since_ath[1] # None
           /\ LET c == candles_since_ath[1][1]
                  p == N - c
              IN  /\ c \in 0..(N - 1)
                  /\ \A k \in 1..N : high[k] <= high[p]
                  /\ \A k \in (p + 1)..N : high[k] < high[p]
                  /\ (\A k \in 1..N : high[k] <= high[N]) => c = 0
                  /\ (\A k \in 2..N : high[k] < high[1]) => c = N - 1

C8_Witness ==
    /\ candles_since_ath # None
    /\ Len(data[1].bars) = 3
    /\ data[1].bars[1].High = data[1].bars[2].High
    /\ data[1].bars[3].High < data[1].bars[2].High
    /\ candles_since_ath[1] = Some(1)

\* C9: with positive prices all_time_high is the maximum high of the
\* series and diff_percent is within [0, 100]: 0 when current_price >=
\* all_time_high, else (all_time_high - current_price) / all_time_high * 100.
C9_DiffPercentRange ==
    diff_percent # None =>
       LET bars == data[1].bars
           cur  == current_price[1]
           ath  == all_time_high[1]
           diff == diff_percent[1]
       IN  /\ cur = bars[Len(bars)].Close
           /\ \A k \in 1..Len(bars) : bars[k].High <= ath
           /\ \E k \in 1..Len(bars) : bars[k].High = ath
           /\ diff.den > 0
           /\ 0 <= diff.num /\ diff.num <= 100 * diff.den
           /\ cur >= ath => diff.num = 0
           /\ cur < ath => diff.num * ath = (ath - cur) * 100 * diff.den

C9_Witness ==
    /\ diff_percent # None
    /\ current_price[1] > all_time_high[1]
    /\ diff_percent[1].num = 0
    /\ Len(data[1].bars) = 2

\* C10: when the summary is built, alerted_symbols is exactly the list of
\* the symbols an alert was delivered for during the run.
C10_AlertedAreDelivered ==
    (pc = "for" /\ LoopDone(idx, stock_list)) => alerted_symbols = DeliveredSymbols

====
